---- MODULE Spec2Model ----
(***************************************************************************)
(* The RLM sandbox (packages/core/python/rlm_sandbox.py): a JSON-RPC       *)
(* server over stdio.  run_server reads one line at a time from the        *)
(* inbound stream, handle_request dispatches it to the RlmSandbox, and one *)
(* response line is printed.  A fragment run by execute may call a bridge  *)
(* callback, which writes a request on the outbound stream and blocks on   *)
(* a readline of the same inbound stream.                                  *)
(*                                                                         *)
(* The process is single threaded.  Its only suspension point is the       *)
(* readline of _bridge_call, so an execution is cut into actions exactly   *)
(* there: SkipBlank, Reject, Initialize, GetVariable, Destroy and Execute *)
(* run from the read at the loop head to the next blocking read,           *)
(* BridgeReply and BridgeEof from the readline of _bridge_call to the next *)
(* blocking read.                                                          *)
(*                                                                         *)
(* Spec, SpecCtx and SpecBatch are this server under three sets of inbound *)
(* lines; SpecChunk is the loop of the utility chunk_text, one action per  *)
(* pass.                                                                   *)
(***************************************************************************)
EXTENDS Integers, Sequences, FiniteSets, TLC

\* The number of lines the host puts on the inbound stream.
MaxLines == 3
\* The longest list of prompts a fragment hands to batch_llm_query.
MaxPrompts == 2
\* The longest text, the largest chunk size and the most chunks (the cap on
\* the loop) of a call of chunk_text.
MaxText == 2
MaxSize == 2
MaxChunks == 4
\* The longest Context String the utilities are called on.
MaxCtx == 3

\* The longest pattern a utility accepts.
MAX_PATTERN_LENGTH == 500

\* JSON-RPC error codes.
PARSE_ERROR == -32700
INVALID_REQUEST == -32600
METHOD_NOT_FOUND == -32601
INTERNAL_ERROR == -32603

(***************************************************************************)
(* Values: JSON values and the Python objects bound in the globals.        *)
(***************************************************************************)
StrV(s) == [t |-> "str", items |-> <<s>>]
NumV(s) == [t |-> "num", items |-> <<s>>]
ListV(ss) == [t |-> "list", items |-> ss]
FnV(f) == [t |-> "fn", items |-> <<f>>]
NoneV == [t |-> "none", items |-> <<>>]
\* A string given by its characters; StrV(s) is the string of the one
\* character s.
TextV(chars) == [t |-> "str", items |-> chars]
\* The marker of a name that has no binding.
Unbound == [t |-> "unbound", items |-> <<>>]

\* Request ids: JSON null, a string chosen by the client, or the string
\* "bridge:<n>" that _bridge_call formats from its counter.
NullId == [tag |-> "null", n |-> 0]
ClientId(n) == [tag |-> "client", n |-> n]
BridgeIdOf(n) == [tag |-> "bridge", n |-> n]

CallbackNames == {"llm_query", "rlm_query", "batch_llm_query"}
UtilityNames ==
  {"chunk_text", "search_context", "count_matches", "extract_json",
   "extract_sections", "find_line", "count_lines", "get_line", "quote_match"}
UserNames == {"x", "r"}
Names == UserNames \cup {"context"} \cup CallbackNames \cup UtilityNames

\* Exception kinds that derive from BaseException but not from Exception.
BaseOnlyKinds == {"SystemExit", "KeyboardInterrupt"}

(***************************************************************************)
(* Fragments: the code of an execute request, a sequence of statements.    *)
(***************************************************************************)
NoArgs == <<>>
Assign(name, v) ==
  [op |-> "assign", name |-> name, val |-> v, fn |-> "", args |-> NoArgs]
PrintS(s) ==
  [op |-> "print", name |-> "", val |-> StrV(s), fn |-> "", args |-> NoArgs]
Raise(kind) ==
  [op |-> "raise", name |-> kind, val |-> NoneV, fn |-> "", args |-> NoArgs]
\* name = fn(args)
Call(name, fn, args) ==
  [op |-> "call", name |-> name, val |-> NoneV, fn |-> fn, args |-> args]
\* print(name)
PrintVar(name) ==
  [op |-> "printvar", name |-> name, val |-> NoneV, fn |-> "",
   args |-> NoArgs]
\* print(s, file=sys.stderr)
EPrintS(s) ==
  [op |-> "eprint", name |-> "", val |-> StrV(s), fn |-> "", args |-> NoArgs]

Fragments ==
  { <<PrintS("a"), Assign("x", StrV("1"))>>,
    <<Assign("x", StrV("2")), Raise("ValueError")>>,
    <<PrintS("b"), Raise("SystemExit")>>,
    <<Call("r", "llm_query", <<"p">>), Raise("KeyboardInterrupt")>>,
    <<Call("r", "llm_query", <<"p">>), PrintS("c")>>,
    <<Call("x", "llm_query", <<"p">>), Call("r", "rlm_query", <<"t", "ctx">>)>>,
    <<Call("r", "batch_llm_query", <<"p", "q">>)>>,
    <<Call("r", "batch_llm_query", <<>>), Call("x", "rlm_query", <<"t">>)>> }

(***************************************************************************)
(* Lines of the inbound stream.  kind says what json.loads makes of the    *)
(* stripped line: "blank" (nothing left after strip), "garbage" (not       *)
(* JSON), "nonobj" (JSON, not an object), "obj" (a JSON object).  For an   *)
(* object the other fields give the keys the program looks at; method      *)
(* "absent" is an object without a method key, "other" any method value    *)
(* that is none of the four the dispatcher knows.                          *)
(***************************************************************************)
NoParams == [isDict |-> TRUE, code |-> <<>>, context |-> <<>>, name |-> ""]
Line(kind, id, method, params, hasError, hasResult, result) ==
  [kind |-> kind, id |-> id, method |-> method, params |-> params,
   hasError |-> hasError, hasResult |-> hasResult, result |-> result]
Junk(kind) == Line(kind, NullId, "absent", NoParams, FALSE, FALSE, NoneV)
Request(id, method, params) ==
  Line("obj", id, method, params, FALSE, FALSE, NoneV)
ReplyResult(id, v) == Line("obj", id, "absent", NoParams, FALSE, TRUE, v)
ReplyError(id) == Line("obj", id, "absent", NoParams, TRUE, FALSE, NoneV)

RequestLines ==
  { Request(ClientId(1), "execute", [NoParams EXCEPT !.code = f]) :
      f \in Fragments }
  \cup
  { Request(ClientId(1), "absent", NoParams),
    Request(ClientId(1), "other", NoParams),
    Request(ClientId(2), "initialize", [NoParams EXCEPT !.context = <<"A">>]),
    Request(ClientId(2), "get_variable", [NoParams EXCEPT !.name = "x"]),
    Request(ClientId(2), "get_variable", [NoParams EXCEPT !.isDict = FALSE]),
    Request(NullId, "destroy", NoParams) }
ReplyLines ==
  { ReplyResult(BridgeIdOf(1), StrV("ans")),
    ReplyResult(BridgeIdOf(2), StrV("ans")),
    ReplyResult(BridgeIdOf(1), ListV(<<"u", "v">>)),
    ReplyResult(BridgeIdOf(1), NumV("5")),
    ReplyError(BridgeIdOf(1)) }
JunkLines == { Junk("blank"), Junk("garbage"), Junk("nonobj") }
Lines == RequestLines \cup ReplyLines \cup JunkLines

VARIABLES
  pc,              \* "read" (loop head), "await" (in _bridge_call's readline),
                   \* "done" (loop ended), "crashed" (ended by an exception)
  globals,         \* RlmSandbox._globals
  bridge_counter,  \* RlmSandbox._bridge_counter
  sys_stdout,      \* what sys.stdout and sys.stderr are: "real" or "captured"
  frame,           \* the execute suspended in _bridge_call
  out,             \* the lines written to the outbound stream, in order
  inlog,           \* the inbound lines consumed so far, with their reader
  reqs,            \* the top-level requests dispatched so far
  eof,             \* the host has closed the inbound stream
  ck,              \* the activation of chunk_text: its arguments and locals
  ut               \* the call of a utility that reads the Context String

vars ==
  <<pc, globals, bridge_counter, sys_stdout, frame, out, inlog, reqs, eof,
    ck, ut>>

(***************************************************************************)
(* Protocol codec.                                                         *)
(***************************************************************************)
\* parse_jsonrpc_request with the two error codes exchanged.
parse_jsonrpc_request_codes_swapped(line) ==
  IF line.kind \in {"blank", "garbage", "eof"}
    THEN [ok |-> FALSE, code |-> INVALID_REQUEST]
  ELSE IF line.kind # "obj" \/ line.method = "absent"
    THEN [ok |-> FALSE, code |-> PARSE_ERROR]
  ELSE [ok |-> TRUE, code |-> 0]

\* parse_jsonrpc_request: the request, or the JsonRpcError it raises.
parse_jsonrpc_request(line) ==
  IF line.kind \in {"blank", "garbage", "eof"}
    THEN [ok |-> FALSE, code |-> PARSE_ERROR]
  ELSE IF line.kind # "obj"
    THEN [ok |-> FALSE, code |-> INVALID_REQUEST]
  ELSE IF line.method = "absent"
    THEN [ok |-> FALSE, code |-> INVALID_REQUEST]
  ELSE [ok |-> TRUE, code |-> 0]

NoText == <<>>
EmptyBody ==
  [stdout |-> NoText, stderr |-> NoText, error |-> NoText,
   value |-> NoneV, found |-> FALSE, status |-> ""]

\* format_jsonrpc_response: a response envelope with a result or an error.
\* req is not part of the envelope: it numbers the top-level request during
\* whose handling the line was written.
format_jsonrpc_response(id, isError, code, body, req) ==
  [type |-> "response", id |-> id,
   kind |-> IF isError THEN "error" ELSE "result",
   code |-> IF isError THEN code ELSE 0,
   body |-> IF isError THEN EmptyBody ELSE body,
   method |-> "", params |-> {}, req |-> req]

(***************************************************************************)
(* Bridge client.                                                          *)
(***************************************************************************)
bridge_method(f) ==
  CASE f = "llm_query" -> "bridge:llm"
    [] f = "rlm_query" -> "bridge:rlm"
    [] OTHER -> "bridge:batch_llm"

\* The params each callback hands to _bridge_call, as key/value pairs.
bridge_params(f, args) ==
  CASE f = "llm_query" -> {<<"prompt", StrV(args[1])>>}
    [] f = "rlm_query" ->
         {<<"task", StrV(args[1])>>}
         \cup (IF Len(args) > 1 THEN {<<"context", StrV(args[2])>>} ELSE {})
    [] OTHER -> {<<"prompts", ListV(args)>>}

\* bridge_request that formats the id from a counter that starts again
\* with every call.
bridge_request_counter_restarts(f, args, n, req) ==
  [type |-> "bridge", id |-> BridgeIdOf(1), kind |-> "request", code |-> 0,
   body |-> EmptyBody, method |-> bridge_method(f),
   params |-> bridge_params(f, args), req |-> req]

\* _bridge_call up to its flush: the request line for counter value n.
bridge_request(f, args, n, req) ==
  [type |-> "bridge", id |-> BridgeIdOf(n), kind |-> "request", code |-> 0,
   body |-> EmptyBody, method |-> bridge_method(f),
   params |-> bridge_params(f, args), req |-> req]

\* bridge_send writing one request per prompt before any read.
bridge_send_per_prompt(f, args, n, req) ==
  IF f = "batch_llm_query"
    THEN [i \in 1..Len(args) |-> bridge_request("llm_query", <<args[i]>>, n, req)]
    ELSE <<bridge_request(f, args, n, req)>>

\* _bridge_call's write and flush: the lines it puts on the outbound stream
\* before it reads.
bridge_send(f, args, n, req) == <<bridge_request(f, args, n, req)>>

\* bridge_wait of a bridge call that does not block: the reply is left to
\* the loop of run_server.
bridge_wait_nonblocking == "read"

\* Where the process is after the flush: blocked in the readline of
\* _bridge_call, not back at the loop of run_server.
bridge_wait == "await"

\* bridge_call_result without the test for an error key.
bridge_call_result_error_ignored(line) ==
  IF line.kind \in {"blank", "garbage", "eof"}
    THEN [ok |-> FALSE, kind |-> "JSONDecodeError", val |-> NoneV]
  ELSE IF line.kind # "obj"
    THEN [ok |-> FALSE, kind |-> "AttributeError", val |-> NoneV]
  ELSE [ok |-> TRUE, kind |-> "",
        val |-> IF line.hasResult THEN line.result ELSE StrV("")]

\* bridge_call_result of a bridge call that ends the process when its
\* readline meets the end of the input.
bridge_call_result_eof_exits(line) ==
  IF line.kind = "eof"
    THEN [ok |-> FALSE, kind |-> "SystemExit", val |-> NoneV]
  ELSE IF line.kind \in {"blank", "garbage"}
    THEN [ok |-> FALSE, kind |-> "JSONDecodeError", val |-> NoneV]
  ELSE IF line.kind # "obj"
    THEN [ok |-> FALSE, kind |-> "AttributeError", val |-> NoneV]
  ELSE IF line.hasError
    THEN [ok |-> FALSE, kind |-> "RuntimeError", val |-> NoneV]
  ELSE [ok |-> TRUE, kind |-> "",
        val |-> IF line.hasResult THEN line.result ELSE StrV("")]

\* _bridge_call from its readline on: the value it returns for the line it
\* read, or the kind of the exception it raises.  The id of the line is not
\* looked at.
bridge_call_result(line) ==
  IF line.kind \in {"blank", "garbage", "eof"}
    THEN [ok |-> FALSE, kind |-> "JSONDecodeError", val |-> NoneV]
  ELSE IF line.kind # "obj"
    THEN [ok |-> FALSE, kind |-> "AttributeError", val |-> NoneV]
  ELSE IF line.hasError
    THEN [ok |-> FALSE, kind |-> "RuntimeError", val |-> NoneV]
  ELSE [ok |-> TRUE, kind |-> "",
        val |-> IF line.hasResult THEN line.result ELSE StrV("")]

\* The characters of a string, concatenated.
RECURSIVE Join(_)
Join(chars) == IF chars = <<>> THEN "" ELSE Head(chars) \o Join(Tail(chars))

\* repr of the strings of a list, separated by commas.
RECURSIVE ReprItems(_)
ReprItems(ss) ==
  IF ss = <<>> THEN ""
  ELSE "'" \o Head(ss) \o "'"
       \o (IF Len(ss) > 1 THEN ", " ELSE "") \o ReprItems(Tail(ss))

\* str(v)
PyStr(v) ==
  CASE v.t = "str" -> Join(v.items)
    [] v.t = "num" -> v.items[1]
    [] v.t = "list" -> "[" \o ReprItems(v.items) \o "]"
    [] v.t = "fn" -> "<function>"
    [] OTHER -> "None"

\* What the callback f(args) gives the fragment once _bridge_call has read
\* line: llm_query and rlm_query take len() of the result before returning
\* it, batch_llm_query returns a list result as it is and replicates the
\* string form of any other result once per prompt.
callback_return(f, args, line) ==
  LET b == bridge_call_result(line) IN
  IF ~b.ok THEN b
  ELSE IF f \in {"llm_query", "rlm_query"}
    THEN IF b.val.t \in {"num", "none"}
           THEN [ok |-> FALSE, kind |-> "TypeError", val |-> NoneV]
           ELSE b
  ELSE IF b.val.t = "list" THEN b
  ELSE [b EXCEPT !.val = ListV([i \in 1..Len(args) |-> PyStr(b.val)])]

(***************************************************************************)
(* Utilities that read the Context String.                                 *)
(***************************************************************************)
\* self._globals.get("context", ""): the text a utility works on.
context_of(g) ==
  IF g["context"] = Unbound THEN <<>> ELSE g["context"].items

\* str.split('\n')
RECURSIVE split_lines(_)
split_lines(chars) ==
  IF chars = <<>> THEN << <<>> >>
  ELSE IF Head(chars) = "\n" THEN << <<>> >> \o split_lines(Tail(chars))
  ELSE LET r == split_lines(Tail(chars)) IN
       << <<Head(chars)>> \o r[1] >> \o Tail(r)

\* The integer a decimal literal of a fragment denotes.
IntLit(s) ==
  CASE s = "0" -> 0 [] s = "1" -> 1 [] s = "2" -> 2 [] OTHER -> 3

\* get_line taking n as an index from 0.
get_line_from_zero(g, n) ==
  LET lines == split_lines(context_of(g)) IN
  IF n < 0 \/ n >= Len(lines) THEN <<>> ELSE lines[n + 1]

\* get_line(n)
get_line(g, n) ==
  LET lines == split_lines(context_of(g)) IN
  IF n < 1 \/ n > Len(lines) THEN <<>> ELSE lines[n]

(***************************************************************************)
(* Execution context.                                                      *)
(***************************************************************************)
NoCall == Call("", "", NoArgs)
ExecState(status, g, so, se, rest, call, kind) ==
  [status |-> status, globals |-> g, stdout |-> so, stderr |-> se,
   rest |-> rest, call |-> call, kind |-> kind]

\* exec(code, self._globals): the statements of code in order against the
\* bindings g, with so and se the text captured so far.  It ends "returned",
\* "raised" with the kind of the exception, or "blocked" at the bridge call
\* of a callback with the statements that remain.  Of the utilities only
\* get_line is called by the fragments of the model.
RECURSIVE exec(_, _, _, _)
exec(code, g, so, se) ==
  IF code = <<>> THEN ExecState("returned", g, so, se, <<>>, NoCall, "")
  ELSE
    LET st == Head(code)
        rest == Tail(code)
    IN
    CASE st.op = "assign" ->
           exec(rest, [g EXCEPT ![st.name] = st.val], so, se)
      [] st.op = "print" ->
           exec(rest, g, Append(so, <<"text", st.val.items[1]>>), se)
      [] st.op = "eprint" ->
           exec(rest, g, so, Append(se, <<"text", st.val.items[1]>>))
      [] st.op = "printvar" ->
           IF g[st.name] = Unbound
             THEN ExecState("raised", g, so, se, <<>>, NoCall, "NameError")
             ELSE exec(rest, g, Append(so, <<"text", PyStr(g[st.name])>>), se)
      [] st.op = "raise" ->
           ExecState("raised", g, so, se, <<>>, NoCall, st.name)
      [] OTHER ->
           LET target == g[st.fn] IN
           IF target = Unbound
             THEN ExecState("raised", g, so, se, <<>>, NoCall, "NameError")
           ELSE IF target = FnV("get_line")
             THEN IF g["context"] # Unbound /\ g["context"].t # "str"
                    THEN ExecState("raised", g, so, se, <<>>, NoCall,
                                   "AttributeError")
                    ELSE exec(rest,
                              [g EXCEPT ![st.name] =
                                 TextV(get_line(g, IntLit(st.args[1])))],
                              so, se)
           ELSE IF target.t # "fn" \/ target.items[1] \notin CallbackNames
             THEN ExecState("raised", g, so, se, <<>>, NoCall, "TypeError")
           ELSE IF target.items[1] = "batch_llm_query" /\ st.args = <<>>
             THEN exec(rest, [g EXCEPT ![st.name] = ListV(<<>>)], so, se)
           ELSE ExecState("blocked", g, so, se, rest,
                          [st EXCEPT !.fn = target.items[1]], "")

\* sinks_after of an execute that restores the sinks after the try statement
\* instead of in a finally clause.
sinks_after_no_finally(e) ==
  IF e.status = "returned" THEN "real" ELSE "captured"

\* What sys.stdout and sys.stderr are once execute stands at e: the captured
\* buffers while the fragment is blocked in a callback, and the sinks saved
\* on entry after the finally clause, whichever way the try was left.
sinks_after(e) == IF e.status = "blocked" THEN "captured" ELSE "real"

\* execute without its except clause: every exception leaves execute.
execute_except_none(r) == r

\* The try statement of execute around exec: an exception that derives from
\* Exception is printed into the captured stderr and execute returns.
execute_except(r) ==
  IF r.status = "raised" /\ r.kind \notin BaseOnlyKinds
    THEN [r EXCEPT !.status = "returned",
                   !.stderr = Append(@, <<"traceback", r.kind>>)]
    ELSE r

\* execute_result with the two captured texts exchanged.
execute_result_swapped(r) ==
  [EmptyBody EXCEPT !.stdout = r.stderr, !.stderr = r.stdout,
                    !.error = r.stdout]

\* execute's result dictionary, with the error key handle_request adds.
execute_result(r) ==
  [EmptyBody EXCEPT !.stdout = r.stdout, !.stderr = r.stderr,
                    !.error = r.stderr]

\* The fragment goes on when the callback it is blocked in has read line.
resume(fr, g, line) ==
  LET c == callback_return(fr.call.fn, fr.call.args, line) IN
  IF c.ok
    THEN exec(fr.rest, [g EXCEPT ![fr.call.name] = c.val],
              fr.stdout, fr.stderr)
    ELSE ExecState("raised", g, fr.stdout, fr.stderr, <<>>, NoCall, c.kind)

\* RlmSandbox.__init__
InitGlobals ==
  [n \in Names |-> IF n \in CallbackNames THEN FnV(n) ELSE Unbound]

\* initialize building a fresh namespace instead of updating the one the
\* fragments wrote to.
initialize_fresh_namespace(g, context) ==
  [n \in Names |->
     IF n = "context" THEN TextV(context)
     ELSE IF n \in UtilityNames \cup CallbackNames THEN FnV(n)
     ELSE Unbound]

\* RlmSandbox.initialize
initialize(g, context) ==
  [n \in Names |->
     IF n = "context" THEN TextV(context)
     ELSE IF n \in UtilityNames THEN FnV(n)
     ELSE g[n]]

\* get_variable reading the name with a default and reporting it found.
get_variable_found_always(g, name) ==
  [EmptyBody EXCEPT
     !.found = TRUE,
     !.value = IF name \in Names /\ g[name] # Unbound /\ g[name].t # "fn"
                 THEN g[name] ELSE NoneV]

\* RlmSandbox.get_variable
get_variable(g, name) ==
  IF name \in Names /\ g[name] # Unbound
    THEN [EmptyBody EXCEPT
            !.found = TRUE,
            !.value = IF g[name].t = "fn" THEN StrV("<function>")
                      ELSE g[name]]
    ELSE EmptyBody

\* destroy going back to the bindings of a new sandbox, callbacks included.
destroy_keeps_callbacks(g) == InitGlobals

\* RlmSandbox.destroy
destroy(g) == [n \in Names |-> Unbound]

(***************************************************************************)
(* Request dispatcher.                                                     *)
(***************************************************************************)
\* route of a dispatcher that looks the method up in a table and has no
\* default: an unknown method raises and ends as an internal error.
route_no_default(line) ==
  IF ~parse_jsonrpc_request(line).ok THEN "JsonRpcError"
  ELSE IF line.method \in {"execute", "initialize", "get_variable"}
    THEN IF line.params.isDict THEN line.method ELSE "Exception"
  ELSE IF line.method = "destroy" THEN "destroy"
  ELSE "Exception"

\* The branch of handle_request a line takes: "JsonRpcError" when
\* parse_jsonrpc_request raises, "Exception" when params.get raises because
\* params is no dictionary, "not_found" for the final else, and otherwise
\* the method.
route(line) ==
  IF ~parse_jsonrpc_request(line).ok THEN "JsonRpcError"
  ELSE IF line.method \in {"execute", "initialize", "get_variable"}
    THEN IF line.params.isDict THEN line.method ELSE "Exception"
  ELSE IF line.method = "destroy" THEN "destroy"
  ELSE "not_found"

\* handle_request's local request_id at the time the response is formatted:
\* it is assigned from the request only after parse_jsonrpc_request returned.
request_id(line) ==
  IF parse_jsonrpc_request(line).ok THEN line.id ELSE NullId

\* handle_request for every line that does not run a fragment: the bindings
\* it leaves and the response it returns.
handle_request(line, g, req) ==
  LET rt == route(line)
      id == request_id(line)
      ok == [EmptyBody EXCEPT !.status = "ok"]
  IN
  CASE rt = "JsonRpcError" ->
         [globals |-> g,
          response |-> format_jsonrpc_response(
            id, TRUE, parse_jsonrpc_request(line).code, EmptyBody, req)]
    [] rt = "Exception" ->
         [globals |-> g,
          response |-> format_jsonrpc_response(
            id, TRUE, INTERNAL_ERROR, EmptyBody, req)]
    [] rt = "initialize" ->
         [globals |-> initialize(g, line.params.context),
          response |-> format_jsonrpc_response(id, FALSE, 0, ok, req)]
    [] rt = "get_variable" ->
         [globals |-> g,
          response |-> format_jsonrpc_response(
            id, FALSE, 0, get_variable(g, line.params.name), req)]
    [] rt = "destroy" ->
         [globals |-> destroy(g),
          response |-> format_jsonrpc_response(id, FALSE, 0, ok, req)]
    [] OTHER ->
         [globals |-> g,
          response |-> format_jsonrpc_response(
            id, TRUE, METHOD_NOT_FOUND, EmptyBody, req)]

(***************************************************************************)
(* The process.                                                            *)
(***************************************************************************)
NoFrame ==
  [rest |-> <<>>, call |-> NoCall, stdout |-> NoText, stderr |-> NoText,
   id |-> NullId]

\* An entry of inlog: the line a read returned and who read it ("server"
\* for the loop of run_server, "bridge" for _bridge_call).  The other fields
\* record the moment of the read: req the number of the top-level request
\* the line was dispatched as (server; 0 for a skipped line) or during which
\* it was read (bridge), at the number of lines written before the read,
\* bid the counter value of the bridge call that read it, and ok, ret
\* whether the callback returned and what.
Consumed(line, by, req, bid, ok, ret) ==
  [line |-> line, by |-> by, req |-> req, at |-> Len(out), bid |-> bid,
   ok |-> ok, ret |-> ret]
Dispatched(line) == [line |-> line, status |-> "running", raised |-> ""]

\* An activation of chunk_text(text, chunk_size, overlap) with its locals
\* start and chunks; pc is "call" on entry, "loop" at the head of the while,
\* "returned" with chunks the value returned, "idle" when there is none.
Chunk(pc_, text, chunk_size, overlap, start, chunks) ==
  [pc |-> pc_, text |-> text, chunk_size |-> chunk_size,
   overlap |-> overlap, start |-> start, chunks |-> chunks]
NoChunk == Chunk("idle", <<>>, 0, 0, 0, <<>>)

\* A call fn(...) of a utility from a fragment: pattern (given says whether
\* one was passed), n, window, max_results and max_length are its
\* arguments; pc is "call" before it ran, then "returned" with result the
\* value returned or "raised" with the kind of the exception, and "idle"
\* when there is none.
UtilCall(fn, given, pattern, n, window, max_results, max_length) ==
  [pc |-> "call", fn |-> fn, given |-> given, pattern |-> pattern, n |-> n,
   window |-> window, max_results |-> max_results,
   max_length |-> max_length, result |-> NoneV]
NoUtil == [UtilCall("", FALSE, <<>>, 0, 0, 0, 0) EXCEPT !.pc = "idle"]

Init ==
  /\ pc = "read"
  /\ globals = InitGlobals
  /\ bridge_counter = 0
  /\ sys_stdout = "real"
  /\ frame = NoFrame
  /\ out = <<>>
  /\ inlog = <<>>
  /\ reqs = <<>>
  /\ eof = FALSE
  /\ ck = NoChunk
  /\ ut = NoUtil

\* Settle of an execute that runs the fragment on a copy of the bindings
\* and keeps the copy only when the fragment did not raise.
Settle_on_copy(r, id, rq) ==
  LET e == execute_except(r)
      n == Len(rq)
      ended(status) ==
        [rq EXCEPT ![n].status = status, ![n].raised = r.kind]
  IN
  /\ globals' = IF r.status = "raised" THEN globals ELSE r.globals
  /\ sys_stdout' = sinks_after(e)
  /\ IF e.status = "blocked"
       THEN /\ bridge_counter' = bridge_counter + 1
            /\ out' = out \o bridge_send(e.call.fn, e.call.args,
                                         bridge_counter + 1, n)
            /\ frame' = [rest |-> e.rest, call |-> e.call,
                         stdout |-> e.stdout, stderr |-> e.stderr, id |-> id]
            /\ pc' = bridge_wait
            /\ reqs' = rq
     ELSE IF e.status = "returned"
       THEN /\ out' = Append(out, format_jsonrpc_response(
                                    id, FALSE, 0, execute_result(e), n))
            /\ frame' = NoFrame
            /\ pc' = "read"
            /\ reqs' = ended("answered")
            /\ UNCHANGED bridge_counter
     ELSE /\ frame' = NoFrame
          /\ pc' = "crashed"
          /\ reqs' = ended("died")
          /\ UNCHANGED <<bridge_counter, out>>

\* Where an execute stands after exec ran up to r, for the request numbered
\* Len(rq) with id id:
\*  - blocked in a callback: _bridge_call increments the counter, writes
\*    and flushes the request, and the process waits in readline;
\*  - returned, or raised an Exception: execute restores the sinks and
\*    returns, handle_request formats the result, run_server prints it;
\*  - raised anything else: execute restores the sinks, and the exception
\*    passes through handle_request and run_server and ends the process.
Settle(r, id, rq) ==
  LET e == execute_except(r)
      n == Len(rq)
      ended(status) ==
        [rq EXCEPT ![n].status = status, ![n].raised = r.kind]
  IN
  /\ globals' = r.globals
  /\ sys_stdout' = sinks_after(e)
  /\ IF e.status = "blocked"
       THEN /\ bridge_counter' = bridge_counter + 1
            /\ out' = out \o bridge_send(e.call.fn, e.call.args,
                                         bridge_counter + 1, n)
            /\ frame' = [rest |-> e.rest, call |-> e.call,
                         stdout |-> e.stdout, stderr |-> e.stderr, id |-> id]
            /\ pc' = bridge_wait
            /\ reqs' = rq
     ELSE IF e.status = "returned"
       THEN /\ out' = Append(out, format_jsonrpc_response(
                                    id, FALSE, 0, execute_result(e), n))
            /\ frame' = NoFrame
            /\ pc' = "read"
            /\ reqs' = ended("answered")
            /\ UNCHANGED bridge_counter
     ELSE /\ frame' = NoFrame
          /\ pc' = "crashed"
          /\ reqs' = ended("died")
          /\ UNCHANGED <<bridge_counter, out>>

\* run_server reads a line from sys.stdin.
ServerReads(line) ==
  /\ pc = "read"
  /\ ~eof
  /\ Len(inlog) < MaxLines
  /\ inlog' = Append(inlog,
       Consumed(line, "server",
                IF line.kind = "blank" THEN 0 ELSE Len(reqs) + 1,
                0, FALSE, NoneV))
  /\ eof' = eof
  /\ ck' = ck
  /\ ut' = ut

\* run_server: a line that is empty after strip is skipped.
SkipBlank(line) ==
  /\ ServerReads(line)
  /\ line.kind = "blank"
  /\ UNCHANGED <<pc, globals, bridge_counter, sys_stdout, frame, out, reqs>>

\* Reject of a server that tears the sandbox down when it rejects a line.
Reject_destroys(line) ==
  /\ ServerReads(line)
  /\ line.kind # "blank"
  /\ route(line) \in {"JsonRpcError", "Exception", "not_found"}
  /\ LET h == handle_request(line, globals, Len(reqs) + 1) IN
       /\ globals' = destroy(h.globals)
       /\ out' = Append(out, h.response)
  /\ reqs' = Append(reqs, [Dispatched(line) EXCEPT !.status = "answered"])
  /\ UNCHANGED <<pc, bridge_counter, sys_stdout, frame>>

\* run_server and handle_request for a line that calls no sandbox method.
Reject(line) ==
  /\ ServerReads(line)
  /\ line.kind # "blank"
  /\ route(line) \in {"JsonRpcError", "Exception", "not_found"}
  /\ LET h == handle_request(line, globals, Len(reqs) + 1) IN
       /\ globals' = h.globals
       /\ out' = Append(out, h.response)
  /\ reqs' = Append(reqs, [Dispatched(line) EXCEPT !.status = "answered"])
  /\ UNCHANGED <<pc, bridge_counter, sys_stdout, frame>>

\* run_server and handle_request for initialize, get_variable and destroy.
Serve(line, method) ==
  /\ ServerReads(line)
  /\ line.kind # "blank"
  /\ route(line) = method
  /\ LET h == handle_request(line, globals, Len(reqs) + 1) IN
       /\ globals' = h.globals
       /\ out' = Append(out, h.response)
  /\ reqs' = Append(reqs, [Dispatched(line) EXCEPT !.status = "answered"])
  /\ UNCHANGED <<pc, bridge_counter, sys_stdout, frame>>

Initialize(line) == Serve(line, "initialize")
GetVariable(line) == Serve(line, "get_variable")
Destroy(line) == Serve(line, "destroy")

\* run_server and handle_request for execute, up to the response or to the
\* readline of the fragment's first bridge call.
Execute(line) ==
  /\ ServerReads(line)
  /\ line.kind # "blank"
  /\ route(line) = "execute"
  /\ Settle(exec(line.params.code, globals, NoText, NoText),
            request_id(line), Append(reqs, Dispatched(line)))

\* _bridge_call's readline returns line; the fragment goes on up to the
\* response or to the readline of its next bridge call.
BridgeReply(line) ==
  /\ pc = "await"
  /\ ~eof
  /\ Len(inlog) < MaxLines
  /\ LET c == callback_return(frame.call.fn, frame.call.args, line) IN
       inlog' = Append(inlog,
         Consumed(line, "bridge", Len(reqs), bridge_counter, c.ok, c.val))
  /\ eof' = eof
  /\ ck' = ck
  /\ ut' = ut
  /\ Settle(resume(frame, globals, line), frame.id, reqs)

\* _bridge_call's readline returns the empty string: end of input.
BridgeEof ==
  /\ pc = "await"
  /\ eof' = TRUE
  /\ inlog' = Append(inlog,
       Consumed(Junk("eof"), "bridge", Len(reqs), bridge_counter,
                FALSE, NoneV))
  /\ ck' = ck
  /\ ut' = ut
  /\ Settle(resume(frame, globals, Junk("eof")), frame.id, reqs)

\* run_server's loop over sys.stdin ends: end of input.
EndOfInput ==
  /\ pc = "read"
  /\ pc' = "done"
  /\ eof' = TRUE
  /\ UNCHANGED <<globals, bridge_counter, sys_stdout, frame, out, inlog, reqs,
                 ck, ut>>

Next ==
  \/ \E line \in Lines : SkipBlank(line)
  \/ \E line \in Lines : Reject(line)
  \/ \E line \in Lines : Initialize(line)
  \/ \E line \in Lines : GetVariable(line)
  \/ \E line \in Lines : Destroy(line)
  \/ \E line \in Lines : Execute(line)
  \/ \E line \in Lines : BridgeReply(line)
  \/ BridgeEof
  \/ EndOfInput

Spec == Init /\ [][Next]_vars

(***************************************************************************)
(* The same server with the lines of a session that works on the bindings  *)
(* and on the Context String.                                              *)
(***************************************************************************)
CtxFragments ==
  { <<Assign("x", StrV("1")), PrintS("a")>>,
    <<PrintVar("x")>>,
    <<EPrintS("e"), Assign("x", StrV("2")), Raise("ValueError")>>,
    <<Assign("context", StrV("Z"))>>,
    <<Call("r", "get_line", <<"1">>), PrintVar("r")>>,
    <<Assign("llm_query", StrV("1"))>>,
    <<PrintS("b"), Call("r", "llm_query", <<"p">>), PrintVar("r")>>,
    <<Assign("x", StrV("3")), Call("r", "llm_query", <<"p">>)>> }

CtxLines ==
  { Request(ClientId(1), "execute", [NoParams EXCEPT !.code = f]) :
      f \in CtxFragments }
  \cup
  { Request(ClientId(1), "initialize", [NoParams EXCEPT !.context = <<"A">>]),
    Request(ClientId(1), "initialize",
            [NoParams EXCEPT !.context = <<"B", "\n", "C">>]),
    Request(ClientId(1), "destroy", NoParams),
    Request(ClientId(1), "get_variable", [NoParams EXCEPT !.name = "x"]),
    Request(ClientId(1), "get_variable",
            [NoParams EXCEPT !.name = "llm_query"]),
    Request(ClientId(1), "get_variable", [NoParams EXCEPT !.name = "context"]),
    Junk("garbage"),
    ReplyResult(BridgeIdOf(1), StrV("ans")),
    ReplyError(BridgeIdOf(1)) }

NextCtx ==
  \/ \E line \in CtxLines : Reject(line)
  \/ \E line \in CtxLines : Initialize(line)
  \/ \E line \in CtxLines : GetVariable(line)
  \/ \E line \in CtxLines : Destroy(line)
  \/ \E line \in CtxLines : Execute(line)
  \/ \E line \in CtxLines : BridgeReply(line)
  \/ BridgeEof
  \/ EndOfInput

SpecCtx == Init /\ [][NextCtx]_vars

(***************************************************************************)
(* The same server with fragments that call batch_llm_query on every list  *)
(* of 1..MaxPrompts prompts, and the replies a host can give.              *)
(***************************************************************************)
PromptLists ==
  UNION { [1..n -> {"p", "q"}] : n \in 1..MaxPrompts }

BatchReplyLines ==
  { ReplyResult(BridgeIdOf(1), v) :
      v \in { ListV(<<>>), ListV(<<"u">>), ListV(<<"u", "v">>),
              ListV(<<"u", "v", "w">>), StrV("ans"), NumV("5"), NoneV } }
  \cup
  { Line("obj", BridgeIdOf(1), "absent", NoParams, FALSE, FALSE, NoneV),
    ReplyError(BridgeIdOf(1)) }

BatchLines ==
  { Request(ClientId(1), "execute",
            [NoParams EXCEPT !.code = <<Call("r", "batch_llm_query", ps)>>]) :
      ps \in PromptLists }
  \cup BatchReplyLines

NextBatch ==
  \/ \E line \in BatchLines : Reject(line)
  \/ \E line \in BatchLines : Execute(line)
  \/ \E line \in BatchLines : BridgeReply(line)
  \/ BridgeEof
  \/ EndOfInput

SpecBatch == Init /\ [][NextBatch]_vars

(***************************************************************************)
(* chunk_text, one action per pass of its loop.                            *)
(***************************************************************************)
Min(a, b) == IF a < b THEN a ELSE b
Max(a, b) == IF a > b THEN a ELSE b

\* A slice that takes the character at its end index too.
PySlice_end_inclusive(text, a, b) ==
  LET norm(i) == IF i < 0 THEN Max(Len(text) + i, 0) ELSE Min(i, Len(text))
  IN SubSeq(text, norm(a) + 1, Min(norm(b) + 1, Len(text)))

\* text[a:b]: a negative index counts from the end, and both are clipped
\* to the text.
PySlice(text, a, b) ==
  LET norm(i) == IF i < 0 THEN Max(Len(text) + i, 0) ELSE Min(i, Len(text))
  IN SubSeq(text, norm(a) + 1, norm(b))

Texts == UNION { [1..n -> {"a", "b"}] : n \in 0..MaxText }

InitChunk ==
  /\ pc = "read"
  /\ globals = InitGlobals
  /\ bridge_counter = 0
  /\ sys_stdout = "real"
  /\ frame = NoFrame
  /\ out = <<>>
  /\ inlog = <<>>
  /\ reqs = <<>>
  /\ eof = FALSE
  /\ \E text \in Texts, chunk_size \in -1..MaxSize,
        overlap \in -1..(MaxSize + 1) :
       ck = Chunk("call", text, chunk_size, overlap, 0, <<>>)
  /\ ut = NoUtil

\* if chunk_size <= 0: return [text]; else chunks = [], start = 0.
ChunkEnter ==
  /\ ck.pc = "call"
  /\ ck' = IF ck.chunk_size <= 0
             THEN [ck EXCEPT !.pc = "returned", !.chunks = <<ck.text>>]
             ELSE [ck EXCEPT !.pc = "loop", !.start = 0, !.chunks = <<>>]
  /\ UNCHANGED <<pc, globals, bridge_counter, sys_stdout, frame, out, inlog,
                 reqs, eof, ut>>

\* One pass of the body of while start < len(text).
ChunkLoop ==
  /\ ck.pc = "loop"
  /\ ck.start < Len(ck.text)
  /\ Len(ck.chunks) < MaxChunks
  /\ LET end == ck.start + ck.chunk_size IN
       ck' = [ck EXCEPT
                !.chunks = Append(@, PySlice(ck.text, ck.start, end)),
                !.start = IF ck.overlap > 0 THEN end - ck.overlap ELSE end]
  /\ UNCHANGED <<pc, globals, bridge_counter, sys_stdout, frame, out, inlog,
                 reqs, eof, ut>>

\* The test of the while fails: return chunks.
ChunkExit ==
  /\ ck.pc = "loop"
  /\ ~(ck.start < Len(ck.text))
  /\ ck' = [ck EXCEPT !.pc = "returned"]
  /\ UNCHANGED <<pc, globals, bridge_counter, sys_stdout, frame, out, inlog,
                 reqs, eof, ut>>

NextChunk == ChunkEnter \/ ChunkLoop \/ ChunkExit

SpecChunk == InitChunk /\ [][NextChunk]_vars

(***************************************************************************)
(* The utilities that take a pattern.  The patterns of the model are       *)
(* sequences of literal characters, so a match of a pattern is a place     *)
(* where the text has these characters.                                    *)
(***************************************************************************)
\* The letters of the model in lower case.
Lower(c) == CASE c = "A" -> "a" [] c = "B" -> "b" [] OTHER -> c

\* re.compile(pattern, flags), with ignorecase saying whether flags has
\* re.IGNORECASE.
compile(pattern, ignorecase) ==
  [pattern |-> pattern, ignorecase |-> ignorecase]

\* The compiled pattern c matches text at offset i.
match_at(c, text, i) ==
  /\ i + Len(c.pattern) <= Len(text)
  /\ \A j \in 1..Len(c.pattern) :
       IF c.ignorecase THEN Lower(c.pattern[j]) = Lower(text[i + j])
                       ELSE c.pattern[j] = text[i + j]

\* The matches of c in text from offset pos on, leftmost first and without
\* overlap; after an empty match the scan moves on by one character.
RECURSIVE scan(_, _, _)
scan(c, text, pos) ==
  IF pos > Len(text) THEN <<>>
  ELSE IF match_at(c, text, pos)
    THEN <<[start |-> pos, end |-> pos + Len(c.pattern)]>>
         \o scan(c, text,
                 IF c.pattern = <<>> THEN pos + 1 ELSE pos + Len(c.pattern))
  ELSE scan(c, text, pos + 1)

\* compiled.finditer(text), match.group(), compiled.findall(text) and
\* whether compiled.search(text) finds a match.
finditer(c, text) == scan(c, text, 0)
group(text, m) == PySlice(text, m.start, m.end)
findall(c, text) ==
  LET ms == finditer(c, text) IN [k \in DOMAIN ms |-> group(text, ms[k])]
search(c, text) == finditer(c, text) # <<>>

\* str.strip(); the only whitespace of the model is the newline.
RECURSIVE lstrip(_)
lstrip(chars) ==
  IF chars # <<>> /\ Head(chars) = "\n" THEN lstrip(Tail(chars)) ELSE chars
RECURSIVE rstrip(_)
rstrip(chars) ==
  IF chars # <<>> /\ chars[Len(chars)] = "\n"
    THEN rstrip(SubSeq(chars, 1, Len(chars) - 1))
    ELSE chars
strip(chars) == rstrip(lstrip(chars))

\* What a utility does: it returns val, or raises.
Returns(val) == [raised |-> "", val |-> val]
Raises(kind) == [raised |-> kind, val |-> NoneV]
\* if len(pattern) > MAX_PATTERN_LENGTH: raise ValueError
too_long(pattern) == Len(pattern) > MAX_PATTERN_LENGTH

\* The loop of search_context that stops one match late.
RECURSIVE search_context_loop_late(_, _, _, _, _)
search_context_loop_late(matches, results, context, window, max_results) ==
  IF matches = <<>> \/ Len(results) > max_results THEN results
  ELSE LET m == Head(matches) IN
       search_context_loop_late(
         Tail(matches),
         Append(results,
                [match |-> group(context, m),
                 context |-> PySlice(context, Max(0, m.start - window),
                                     Min(Len(context), m.end + window)),
                 start |-> m.start, end |-> m.end]),
         context, window, max_results)

\* for match in compiled.finditer(context): the loop of search_context
\* over the matches that remain, with the results so far.
RECURSIVE search_context_loop(_, _, _, _, _)
search_context_loop(matches, results, context, window, max_results) ==
  IF matches = <<>> \/ Len(results) >= max_results THEN results
  ELSE LET m == Head(matches) IN
       search_context_loop(
         Tail(matches),
         Append(results,
                [match |-> group(context, m),
                 context |-> PySlice(context, Max(0, m.start - window),
                                     Min(Len(context), m.end + window)),
                 start |-> m.start, end |-> m.end]),
         context, window, max_results)

search_context(g, pattern, window, max_results) ==
  IF too_long(pattern) THEN Raises("ValueError")
  ELSE Returns(search_context_loop(
                 finditer(compile(pattern, TRUE), context_of(g)), <<>>,
                 context_of(g), window, max_results))

count_matches(g, pattern) ==
  IF too_long(pattern) THEN Raises("ValueError")
  ELSE Returns(Len(findall(compile(pattern, TRUE), context_of(g))))

extract_sections(g, header_pattern) ==
  IF too_long(header_pattern) THEN Raises("ValueError")
  ELSE LET context == context_of(g)
           matches == finditer(compile(header_pattern, FALSE), context)
       IN Returns(
            [i \in DOMAIN matches |->
               LET end == IF i + 1 <= Len(matches) THEN matches[i + 1].start
                          ELSE Len(context)
               IN [header |-> group(context, matches[i]),
                   content |-> strip(PySlice(context, matches[i].end, end)),
                   start |-> matches[i].start]])

find_line(g, pattern) ==
  IF too_long(pattern) THEN Raises("ValueError")
  ELSE LET lines == split_lines(context_of(g))
           found(e) == search(compile(pattern, TRUE), e[2])
       IN Returns(SelectSeq([i \in DOMAIN lines |-> <<i, lines[i]>>], found))

count_lines(g, given, pattern) ==
  LET lines == split_lines(context_of(g))
      found(line) == search(compile(pattern, TRUE), line)
  IN
  IF ~given THEN Returns(Len(lines))
  ELSE IF too_long(pattern) THEN Raises("ValueError")
  ELSE Returns(Len(SelectSeq(lines, found)))

quote_match(g, pattern, max_length) ==
  IF too_long(pattern) THEN Raises("ValueError")
  ELSE LET context == context_of(g)
           ms == finditer(compile(pattern, TRUE), context)
       IN
       IF ms = <<>> THEN Returns(NoneV)
       ELSE LET result == group(context, ms[1]) IN
            IF Len(result) > max_length
              THEN Returns(TextV(SubSeq(result, 1, max_length)
                                 \o <<".", ".", ".">>))
              ELSE Returns(TextV(result))

(***************************************************************************)
(* One call of a utility on the bindings an initialize has left.           *)
(***************************************************************************)
Contexts == UNION { [1..n -> {"a", "A", "b", "\n"}] : n \in 0..MaxCtx }
Patterns ==
  { <<>>, <<"a">>, <<"A">>, <<"a", "a">>, <<"a", "b">>, <<"b", "\n">> }

UtilCalls ==
  { UtilCall("get_line", FALSE, <<>>, n, 0, 0, 0) : n \in -1..(MaxCtx + 2) }
  \cup { UtilCall("count_lines", FALSE, <<>>, 0, 0, 0, 0) }
  \cup { UtilCall(fn, TRUE, p, 0, 0, 0, 0) :
           fn \in {"count_lines", "find_line", "count_matches",
                   "extract_sections"},
           p \in Patterns }
  \cup { UtilCall("search_context", TRUE, p, 0, w, k, 0) :
           p \in Patterns, w \in 0..1, k \in 0..MaxCtx }
  \cup { UtilCall("quote_match", TRUE, p, 0, 0, 0, l) :
           p \in Patterns, l \in 1..2 }

\* The state after run_server has served one initialize, with a fragment
\* about to call a utility.
InitUtil ==
  \E context \in Contexts, call \in UtilCalls :
    LET line == Request(ClientId(1), "initialize",
                        [NoParams EXCEPT !.context = context])
        h == handle_request(line, InitGlobals, 1)
    IN
    /\ pc = "read"
    /\ globals = h.globals
    /\ bridge_counter = 0
    /\ sys_stdout = "real"
    /\ frame = NoFrame
    /\ out = <<h.response>>
    /\ inlog = <<[line |-> line, by |-> "server", req |-> 1, at |-> 0,
                  bid |-> 0, ok |-> FALSE, ret |-> NoneV]>>
    /\ reqs = <<[Dispatched(line) EXCEPT !.status = "answered"]>>
    /\ eof = FALSE
    /\ ck = NoChunk
    /\ ut = call

\* The call fn(...) of ut runs and does what r says.
Util(fn, r) ==
  /\ ut.pc = "call"
  /\ ut.fn = fn
  /\ globals[fn] = FnV(fn)
  /\ ut' = [ut EXCEPT
              !.pc = IF r.raised = "" THEN "returned" ELSE "raised",
              !.result = IF r.raised = "" THEN r.val ELSE r.raised]
  /\ UNCHANGED <<pc, globals, bridge_counter, sys_stdout, frame, out, inlog,
                 reqs, eof, ck>>

GetLine == Util("get_line", Returns(get_line(globals, ut.n)))
CountLines ==
  Util("count_lines", count_lines(globals, ut.given, ut.pattern))
FindLine == Util("find_line", find_line(globals, ut.pattern))
SearchContext ==
  Util("search_context",
       search_context(globals, ut.pattern, ut.window, ut.max_results))
CountMatches == Util("count_matches", count_matches(globals, ut.pattern))
QuoteMatch ==
  Util("quote_match", quote_match(globals, ut.pattern, ut.max_length))
ExtractSections ==
  Util("extract_sections", extract_sections(globals, ut.pattern))

NextUtil ==
  \/ GetLine
  \/ CountLines
  \/ FindLine
  \/ SearchContext
  \/ CountMatches
  \/ QuoteMatch
  \/ ExtractSections

SpecUtil == InitUtil /\ [][NextUtil]_vars

(***************************************************************************)
(* Properties.                                                             *)
(***************************************************************************)
SandboxMethods == {"execute", "initialize", "get_variable", "destroy"}
BridgeMethods == {"bridge:llm", "bridge:rlm", "bridge:batch_llm"}
Last(s) == s[Len(s)]
TextOf(s) == {s[i] : i \in DOMAIN s}

\* The places in out of the responses written while request k was handled.
ResponsesTo(k) ==
  {i \in DOMAIN out : out[i].type = "response" /\ out[i].req = k}
\* The number of lines written before the read after read j.
OutAfter(j) == IF j < Len(inlog) THEN inlog[j + 1].at ELSE Len(out)
\* C1: every line the server loop reads that is a JSON object with method
\* execute, initialize, get_variable or destroy gets exactly one response
\* line, and that response carries the id of the request.
C1_OneResponsePerRequest ==
  \A k \in DOMAIN reqs :
    LET ln == reqs[k].line IN
    (ln.kind = "obj" /\ ln.method \in SandboxMethods) =>
      /\ Cardinality(ResponsesTo(k)) <= 1
      /\ \A i \in ResponsesTo(k) : out[i].id = ln.id
      /\ reqs[k].status # "running" => Cardinality(ResponsesTo(k)) = 1

\* C2: an execute whose fragment ends in an uncaught failure of any kind is
\* answered by a result envelope whose stderr holds the failure.
C2_FailureIsResult ==
  \A k \in DOMAIN reqs :
    (reqs[k].raised # "" /\ reqs[k].status # "running") =>
      \E i \in ResponsesTo(k) :
        /\ out[i].kind = "result"
        /\ <<"traceback", reqs[k].raised>> \in TextOf(out[i].body.stderr)

\* C3: the server loop is never ended by a request: the process is at the
\* loop head, inside the handling of a line, or has seen the end of input.
C3_LoopNeverStops ==
  /\ pc \in {"read", "await", "done"}
  /\ pc = "done" => eof

\* C4: an object without method is answered by one error -32600 that echoes
\* the id of the request; a response has a null id only when the line had no
\* id to echo (it is not JSON, not an object, or its own id is null).
C4_MissingMethodEchoesId ==
  \A k \in DOMAIN reqs :
    LET ln == reqs[k].line IN
    /\ (ln.kind = "obj" /\ ln.method = "absent") =>
         /\ Cardinality(ResponsesTo(k)) = 1
         /\ \A i \in ResponsesTo(k) :
              /\ out[i].kind = "error"
              /\ out[i].code = INVALID_REQUEST
              /\ out[i].id = ln.id
    /\ \A i \in ResponsesTo(k) :
         out[i].id = NullId => (ln.kind # "obj" \/ ln.id = NullId)

IsParseErrorResponse(r) ==
  r.type = "response" /\ r.kind = "error" /\ r.code = PARSE_ERROR
  /\ r.id = NullId

\* C5 as stated: every line the server loop reads that is not well-formed
\* JSON, an empty or whitespace-only line included, makes the server write
\* exactly one response line, an error -32700 with id null.
C5_EveryNonJsonLineAnswered ==
  \A j \in DOMAIN inlog :
    (inlog[j].by = "server" /\ inlog[j].line.kind \in {"blank", "garbage"}) =>
      /\ OutAfter(j) = inlog[j].at + 1
      /\ IsParseErrorResponse(out[OutAfter(j)])

\* C5 amended: a line the server loop reads that is not empty after strip
\* and is not well-formed JSON makes the server write exactly one response
\* line, an error -32700 with id null; for an empty or whitespace-only line
\* the server writes nothing.
C5_NonBlankNonJsonLineAnswered ==
  \A j \in DOMAIN inlog :
    inlog[j].by = "server" =>
      /\ inlog[j].line.kind = "garbage" =>
           /\ OutAfter(j) = inlog[j].at + 1
           /\ IsParseErrorResponse(out[OutAfter(j)])
      /\ inlog[j].line.kind = "blank" => OutAfter(j) = inlog[j].at

C5_Witness ==
  /\ \E j \in DOMAIN inlog :
       inlog[j].by = "server" /\ inlog[j].line.kind = "garbage"
  /\ \E j \in DOMAIN inlog :
       inlog[j].by = "server" /\ inlog[j].line.kind = "blank"
  /\ pc = "done"

\* C6: a request whose method is none of the four sandbox methods is
\* answered by exactly one error -32601 with the id of the request, and the
\* step touches nothing of the execution context: the bindings, the bridge
\* counter, the sinks and the suspended frame stay as they are, and the
\* response is the only line written.
C6_UnknownMethodNotFound ==
  [][\A line \in Lines :
       ( /\ line.kind = "obj"
         /\ line.method \notin SandboxMethods \cup {"absent"}
         /\ pc = "read"
         /\ Len(inlog') = Len(inlog) + 1
         /\ Last(inlog').by = "server"
         /\ Last(inlog').line = line )
       =>
       ( /\ out' = Append(out, [type |-> "response", id |-> line.id,
                                kind |-> "error", code |-> METHOD_NOT_FOUND,
                                body |-> EmptyBody, method |-> "",
                                params |-> {}, req |-> Len(reqs')])
         /\ UNCHANGED <<globals, bridge_counter, sys_stdout, frame>>
         /\ pc' = "read" )
    ]_vars

C6_Witness ==
  \E k \in DOMAIN reqs :
    /\ reqs[k].line.kind = "obj"
    /\ reqs[k].line.method = "other"
    /\ reqs[k].status = "answered"
    /\ \E i \in ResponsesTo(k) : out[i].code = METHOD_NOT_FOUND

\* The line of a bridge read carries a result the callback can take: it is
\* a JSON object without an error key.
CarriesResult(line) == line.kind = "obj" /\ ~line.hasError
ResultOf(line) == IF line.hasResult THEN line.result ELSE StrV("")

\* What holds of every step for a bridge call, whatever the callback makes
\* of the line: entering the call writes exactly one bridge request, the
\* last line written; while the call waits that request stays the last line
\* written; the step that leaves the wait consumes exactly one inbound line
\* (or meets the end of input) and only then writes the next line, the
\* response to the execute or the request of the fragment's next call
\* (nothing when the fragment then ends the process).
BridgeRoundTrip ==
  /\ pc' = "await" =>
       /\ Len(out') = Len(out) + 1
       /\ Last(out').type = "bridge"
       /\ Last(out').method \in BridgeMethods
       /\ Last(out').id = BridgeIdOf(bridge_counter')
       /\ bridge_counter' = bridge_counter + 1
  /\ pc = "await" =>
       /\ Last(out).type = "bridge"
       /\ Len(inlog') = Len(inlog) + 1
       /\ Last(inlog').by = "bridge"
       /\ Last(inlog').at = Len(out)
       /\ pc' \in {"read", "await"} => Len(out') = Len(out) + 1
       /\ pc' = "crashed" => out' = out
       /\ pc' = "read" =>
            /\ Last(out').type = "response"
            /\ Last(out').kind = "result"
            /\ Last(out').id = frame.id
  /\ (pc # "await" /\ pc' # "await") =>
       \A i \in DOMAIN out' : i > Len(out) => out'[i].type = "response"

\* C7 as stated: a callback invoked by a fragment writes exactly one bridge
\* request before anything else is written, one inbound line is then
\* consumed, the fragment resumes with that line's result as the value the
\* callback returned, and the response to the execute comes after that.
C7_CallbackReturnsLineResult ==
  [][ /\ BridgeRoundTrip
      /\ (pc = "await" /\ CarriesResult(Last(inlog').line)
          /\ Last(inlog').line.hasResult) =>
           globals'[frame.call.name] = Last(inlog').line.result
    ]_vars

\* C7 amended: as stated, except for the value the fragment resumes with.
\* For a line that is a JSON object without an error key, with result the
\* value of its result key (the empty string when it has none): llm_query
\* and rlm_query return result, and raise instead when result has no length
\* (a number, null); batch_llm_query returns result when it is a list and
\* otherwise one copy of str(result) per prompt.  For any other line the
\* callback raises and the binding it was to set stays as it was.
C7_CallbackRoundTrip ==
  [][ /\ BridgeRoundTrip
      /\ pc = "await" =>
           LET line == Last(inlog').line
               f == frame.call.fn
               res == ResultOf(line)
               bound == globals'[frame.call.name]
               raised == /\ bound = globals[frame.call.name]
                         /\ pc' = "read"
                         /\ Last(out').body.stderr # NoText
           IN
           IF ~CarriesResult(line) THEN raised
           ELSE IF f \in {"llm_query", "rlm_query"}
             THEN IF res.t \in {"num", "none"} THEN raised ELSE bound = res
           ELSE IF res.t = "list" THEN bound = res
           ELSE bound = ListV([i \in 1..Len(frame.call.args) |-> PyStr(res)])
    ]_vars

C7_Witness ==
  /\ pc = "read"
  /\ \E j \in DOMAIN inlog :
       /\ inlog[j].by = "bridge"
       /\ inlog[j].ok
       /\ out[inlog[j].at].method = "bridge:batch_llm"
       /\ inlog[j].line.result = StrV("ans")
       /\ globals["r"] = ListV(<<"ans", "ans">>)

\* C8: a callback returns a value only from a line that is the correlated
\* reply to its request: a line whose id is the bridge id just issued.
C8_ReplyIsCorrelated ==
  \A j \in DOMAIN inlog :
    (inlog[j].by = "bridge" /\ inlog[j].ok) =>
      inlog[j].line.id = BridgeIdOf(inlog[j].bid)

BridgeRequestsWritten ==
  Cardinality({i \in DOMAIN out : out[i].type = "bridge"})
BridgeReads ==
  Cardinality({j \in DOMAIN inlog : inlog[j].by = "bridge"})
\* Bridge requests written whose reply has not been read.
Outstanding == BridgeRequestsWritten - BridgeReads

\* C9: at most one bridge call is outstanding; one is outstanding exactly
\* while the process waits in _bridge_call, and the request then on the
\* outbound stream is the last line written.
C9_AtMostOneOutstanding ==
  /\ Outstanding \in {0, 1}
  /\ Outstanding = 1 <=> pc = "await"
  /\ \A i \in DOMAIN out :
       (out[i].type = "bridge" /\ i < Len(out)) =>
         \E j \in DOMAIN inlog : inlog[j].by = "bridge" /\ inlog[j].at = i

\* A second bridge call of one fragment is outstanding, the first answered.
C9_Witness ==
  /\ pc = "await"
  /\ BridgeRequestsWritten = 2
  /\ BridgeReads = 1

\* C10: the server loop reads a top-level request only when the response to
\* the one before it has been written; responses appear in the order of
\* their requests; a bridge request written while request k is handled
\* comes after the response to request k-1 and before the response to k.
C10_OneRequestAtATime ==
  /\ \A j \in DOMAIN inlog :
       (inlog[j].by = "server" /\ inlog[j].req > 1) =>
         \E i \in ResponsesTo(inlog[j].req - 1) : i <= inlog[j].at
  /\ \A j \in DOMAIN inlog :
       (inlog[j].by = "server" /\ inlog[j].req > 0) =>
         \A i \in DOMAIN out : i <= inlog[j].at <=> out[i].req < inlog[j].req
  /\ \A i, j \in DOMAIN out :
       (out[i].type = "response" /\ out[j].type = "response" /\ i < j) =>
         out[i].req < out[j].req
  /\ \A b \in DOMAIN out :
       out[b].type = "bridge" =>
         /\ \A i \in ResponsesTo(out[b].req) : b < i
         /\ out[b].req > 1 => \E i \in ResponsesTo(out[b].req - 1) : i < b

\* The second request made a bridge call and both requests are answered.
C10_Witness ==
  /\ Len(reqs) = 2
  /\ reqs[2].status = "answered"
  /\ \E b \in DOMAIN out : out[b].type = "bridge" /\ out[b].req = 2
  /\ ResponsesTo(1) # {}

(***************************************************************************)
(* Bindings and the Context String.                                        *)
(***************************************************************************)
\* A step that consumes a line of the inbound stream, the line it consumes,
\* and the branch of the server the line takes ("bridge" when a callback
\* reads it).
StepReads == Len(inlog') = Len(inlog) + 1
StepLine == inlog'[Len(inlog')].line
StepRoute ==
  IF inlog'[Len(inlog')].by = "bridge" THEN "bridge"
  ELSE IF StepLine.kind = "blank" THEN "blank"
  ELSE route(StepLine)
\* The statements the step may run: the fragment of the execute it
\* dispatches, or the call the fragment is blocked in and what follows it.
StepCode ==
  IF StepRoute = "bridge" THEN <<frame.call>> \o frame.rest
  ELSE IF StepRoute = "execute" THEN StepLine.params.code
  ELSE <<>>
StepMayRebind(n) ==
  \E i \in DOMAIN StepCode :
    StepCode[i].op \in {"assign", "call"} /\ StepCode[i].name = n
\* The names initialize leaves alone.
KeptByInitialize == Names \ ({"context"} \cup UtilityNames)
\* The response the step wrote for a request it answered at once.
StepResponse == out'[Len(out')]

\* C11: a binding stays, with its value, over every step that is neither a
\* destroy nor runs a statement binding the same name (a get_variable, a
\* rejected line, an initialize, another fragment), and while it stays a
\* get_variable of the name finds that value and a fragment that prints the
\* name prints it.
C11_BindingsPersist ==
  [][StepReads =>
       \A n \in KeptByInitialize :
         globals[n] # Unbound =>
           /\ (StepRoute # "destroy" /\ ~StepMayRebind(n))
                => globals'[n] = globals[n]
           /\ (StepRoute = "get_variable" /\ StepLine.params.name = n)
                => /\ StepResponse.body.found
                   /\ StepResponse.body.value
                        \in {globals[n], StrV(PyStr(globals[n]))}
           /\ (StepRoute = "execute" /\ StepCode = <<PrintVar(n)>>)
                => StepResponse.body.stdout = <<<<"text", PyStr(globals[n])>>>>
    ]_vars

\* x bound by an execute, then an initialize, then get_variable finds it.
C11_Witness ==
  /\ Len(reqs) = 3
  /\ route(reqs[1].line) = "execute"
  /\ reqs[1].line.params.code[1] = Assign("x", StrV("1"))
  /\ route(reqs[2].line) = "initialize"
  /\ route(reqs[3].line) = "get_variable"
  /\ reqs[3].line.params.name = "x"
  /\ Len(out) = 3
  /\ out[3].body.found
  /\ out[3].body.value = StrV("1")

\* The server has served an initialize and no destroy after it.
InitializedSince ==
  \E k \in DOMAIN reqs :
    /\ route(reqs[k].line) = "initialize"
    /\ \A j \in (k + 1)..Len(reqs) : route(reqs[j].line) # "destroy"

\* C12: once initialize has set the Context String, no step that runs a
\* fragment (a step of an execute, up to or after a bridge call) changes the
\* text the utilities read.
C12_ContextStringFixed ==
  [][(InitializedSince /\ StepReads /\ StepRoute \in {"execute", "bridge"})
       => context_of(globals') = context_of(globals)]_vars

\* C13: when the last line the server handled is an initialize, the three
\* callbacks and the nine utilities are all bound to their functions.
C13_InitializeInstallsAll ==
  (/\ inlog # <<>>
   /\ Last(inlog).by = "server"
   /\ Last(inlog).line.kind # "blank"
   /\ route(Last(inlog).line) = "initialize")
  => \A n \in CallbackNames \cup UtilityNames : globals[n] = FnV(n)

\* The statement reads the name n.
Refers(st, n) ==
  \/ st.op = "printvar" /\ st.name = n
  \/ st.op = "call" /\ st.fn = n

\* C14: destroy leaves every name unbound; a name that is unbound stays so
\* over every step but an initialize that installs it or a statement that
\* binds it, and while it is unbound get_variable answers value null and
\* found false, and a fragment whose first statement reads it is answered
\* by a result whose stderr holds the NameError.
C14_DestroyClears ==
  [][StepReads =>
       /\ StepRoute = "destroy" => \A n \in Names : globals'[n] = Unbound
       /\ \A n \in Names :
            globals[n] = Unbound =>
              /\ globals'[n] # Unbound
                   => \/ StepRoute = "initialize" /\ n \notin KeptByInitialize
                      \/ StepMayRebind(n)
              /\ (StepRoute = "get_variable" /\ StepLine.params.name = n)
                   => /\ ~StepResponse.body.found
                      /\ StepResponse.body.value = NoneV
              /\ (StepRoute = "execute" /\ StepCode # <<>>
                     /\ Refers(StepCode[1], n))
                   => /\ Len(out') = Len(out) + 1
                      /\ StepResponse.kind = "result"
                      /\ StepResponse.id = StepLine.id
                      /\ Last(StepResponse.body.stderr)
                           = <<"traceback", "NameError">>
                      /\ pc' = "read"
    ]_vars

\* x bound by an execute, then destroy, then get_variable does not find x
\* nor llm_query.
C14_Witness ==
  /\ Len(reqs) = 3
  /\ route(reqs[1].line) = "execute"
  /\ reqs[1].line.params.code[1] = Assign("x", StrV("1"))
  /\ route(reqs[2].line) = "destroy"
  /\ route(reqs[3].line) = "get_variable"
  /\ reqs[3].line.params.name = "x"
  /\ Len(out) = 3
  /\ ~out[3].body.found
  /\ out[3].body.value = NoneV
  /\ globals["llm_query"] = Unbound

(***************************************************************************)
(* Bridge failures, batch length, sinks and captured text.                 *)
(***************************************************************************)
\* C15: when the line a callback reads is an object with an error key, the
\* callback raises, and the fragments of the model do not catch it: the step
\* writes exactly one line, the result envelope of the execute with its id,
\* whose stderr ends with the RuntimeError of the bridge, and the server is
\* back at the head of its loop with the sinks restored.
C15_BridgeErrorIsResult ==
  [][(StepReads /\ StepRoute = "bridge" /\ StepLine.kind = "obj"
        /\ StepLine.hasError)
       => /\ ~inlog'[Len(inlog')].ok
          /\ Len(out') = Len(out) + 1
          /\ StepResponse.type = "response"
          /\ StepResponse.kind = "result"
          /\ StepResponse.id = frame.id
          /\ Last(StepResponse.body.stderr) = <<"traceback", "RuntimeError">>
          /\ reqs'[Len(reqs')].status = "answered"
          /\ pc' = "read"
          /\ sys_stdout' = "real"
          /\ frame' = NoFrame
    ]_vars

\* An execute whose callback read an error reply was answered by a result,
\* and the request after it was answered too.
C15_Witness ==
  /\ Len(inlog) = 3
  /\ inlog[2].by = "bridge"
  /\ inlog[2].line.hasError
  /\ inlog[3].by = "server"
  /\ Len(reqs) = 2
  /\ reqs[2].status = "answered"
  /\ Len(out) = 3
  /\ out[2].kind = "result"
  /\ <<"traceback", "RuntimeError">> \in TextOf(out[2].body.stderr)
  /\ out[3].type = "response"

\* The prompts of the bridge:batch_llm request at place i of out.
PromptsOf(i) ==
  (CHOOSE kv \in out[i].params : kv[1] = "prompts")[2].items

\* C16: whenever batch_llm_query has returned, after any reply of the host
\* that is no error, it returned a list with as many entries as it was
\* given prompts.
C16_BatchLengthPreserved ==
  \A j \in DOMAIN inlog :
    (/\ inlog[j].by = "bridge"
     /\ inlog[j].ok
     /\ out[inlog[j].at].method = "bridge:batch_llm")
    => /\ inlog[j].ret.t = "list"
       /\ Len(inlog[j].ret.items) = Len(PromptsOf(inlog[j].at))

\* C17: unless an execute is in progress, which between two steps is the
\* case only while its fragment is blocked in a callback, sys.stdout and
\* sys.stderr are the sinks of the process: after an execute that returned,
\* after one whose fragment failed, and after one that ended the process.
C17_SinksRestored ==
  /\ pc # "await" => sys_stdout = "real"
  /\ \A k \in DOMAIN reqs :
       reqs[k].status \in {"answered", "died"} \/ pc = "await"

\* The sinks are restored after a fragment that ended the process with a
\* KeyboardInterrupt raised after a callback had returned.
C17_Witness ==
  /\ pc = "crashed"
  /\ reqs # <<>>
  /\ Last(reqs).raised = "KeyboardInterrupt"
  /\ \E j \in DOMAIN inlog : inlog[j].by = "bridge" /\ inlog[j].ok
  /\ sys_stdout = "real"

\* The statements of code that write to sys.stdout, and to sys.stderr.
WritesStdout(st) == st.op \in {"print", "printvar"}
WritesStderr(st) == st.op = "eprint"
\* txt is what the statements stmts write, one entry each, in order; what
\* print(name) writes depends on the value of the name.
Written(txt, stmts) ==
  /\ Len(txt) = Len(stmts)
  /\ \A i \in DOMAIN stmts :
       /\ txt[i][1] = "text"
       /\ stmts[i].op \in {"print", "eprint"}
            => txt[i][2] = stmts[i].val.items[1]

\* C18: the result of every answered execute holds, in order, what the
\* statements of its own fragment wrote up to the point p the fragment got
\* to (all of it when nothing was raised), followed in stderr by the
\* traceback when something was raised, and nothing else; every line of the
\* outbound stream is a response or a bridge request, one per answered
\* request and one per bridge call, and each bridge call put its request
\* on the outbound stream just before it read.
C18_CaptureIsPerCall ==
  /\ \A k \in DOMAIN reqs :
       (route(reqs[k].line) = "execute" /\ reqs[k].status = "answered")
       => \E i \in ResponsesTo(k) :
            LET code == reqs[k].line.params.code
                body == out[i].body
                failed == reqs[k].raised # ""
            IN
            \E p \in 0..Len(code) :
              /\ ~failed => p = Len(code)
              /\ Written(body.stdout,
                         SelectSeq(SubSeq(code, 1, p), WritesStdout))
              /\ LET n == Len(body.stderr) - (IF failed THEN 1 ELSE 0) IN
                   /\ n >= 0
                   /\ Written(SubSeq(body.stderr, 1, n),
                              SelectSeq(SubSeq(code, 1, p), WritesStderr))
                   /\ failed
                        => body.stderr[n + 1] = <<"traceback", reqs[k].raised>>
  /\ \A i \in DOMAIN out : out[i].type \in {"response", "bridge"}
  /\ Len(out) = Cardinality({k \in DOMAIN reqs : reqs[k].status = "answered"})
                  + bridge_counter
  /\ \A j \in DOMAIN inlog :
       inlog[j].by = "bridge"
       => /\ out[inlog[j].at].type = "bridge"
          /\ out[inlog[j].at].id = BridgeIdOf(inlog[j].bid)

\* Two executes answered, the second with a bridge call between its two
\* prints: each result holds its own text only, and the bridge request is a
\* line of the outbound stream.
C18_Witness ==
  /\ Len(reqs) = 2
  /\ Len(out) = 3
  /\ reqs[1].line.params.code = <<Assign("x", StrV("1")), PrintS("a")>>
  /\ out[1].body.stdout = <<<<"text", "a">>>>
  /\ out[2].type = "bridge"
  /\ out[3].type = "response"
  /\ out[3].body.stdout = <<<<"text", "b">>, <<"text", "ans">>>>
  /\ out[3].body.stderr = NoText

\* The name asked for in the step is bound.
StepNameBound ==
  /\ StepLine.params.name \in Names
  /\ globals[StepLine.params.name] # Unbound

\* C19 as stated: get_variable answers value null and found false exactly
\* when the name is unbound, found true and the bound value itself when it
\* is bound, and leaves the bindings as they are.
C19_GetVariableReturnsBinding ==
  [][(StepReads /\ StepRoute = "get_variable")
       => /\ StepResponse.kind = "result"
          /\ StepResponse.body.found = StepNameBound
          /\ ~StepNameBound => StepResponse.body.value = NoneV
          /\ StepNameBound
               => StepResponse.body.value = globals[StepLine.params.name]
          /\ globals' = globals
    ]_vars

\* C19 amended: as above, but the value returned for a binding that JSON
\* cannot represent, such as a function, is its string form.
C19_GetVariableReturnsBindingOrStr ==
  [][(StepReads /\ StepRoute = "get_variable")
       => /\ StepResponse.kind = "result"
          /\ StepResponse.body.found = StepNameBound
          /\ ~StepNameBound => StepResponse.body.value = NoneV
          /\ StepNameBound
               => LET v == globals[StepLine.params.name] IN
                  StepResponse.body.value
                    = IF v.t = "fn" THEN StrV(PyStr(v)) ELSE v
          /\ globals' = globals
    ]_vars

\* get_variable has answered for the callback llm_query with the string
\* form of the function, and for x with the string an execute bound.
C19_Witness ==
  /\ Len(reqs) = 3
  /\ Len(out) = 3
  /\ route(reqs[2].line) = "get_variable"
  /\ reqs[2].line.params.name = "llm_query"
  /\ out[2].body.found
  /\ out[2].body.value = StrV("<function>")
  /\ route(reqs[3].line) = "get_variable"
  /\ reqs[3].line.params.name = "x"
  /\ out[3].body.found
  /\ out[3].body.value = StrV("1")

(***************************************************************************)
(* chunk_text.                                                             *)
(***************************************************************************)
\* C20: every pass of the loop of chunk_text moves start forward.  The step
\* chunk_size - overlap is the same in every pass, so a pass that does not
\* move start forward is followed by passes that do not either, the test
\* start < len(text) stays true and the call does not return.
C20_StartAlwaysAdvances ==
  [][(ck.pc = "loop" /\ ck'.pc = "loop" /\ ck' # ck)
       => ck'.start > ck.start]_vars

\* The slices text[k*step : k*step+size] for k = 0, 1, ... while
\* k*step < len(text).
SlicesOf(text, size, step) ==
  LET n == (Len(text) + step - 1) \div step IN
  [k \in 1..n |->
     SubSeq(text, (k - 1) * step + 1, Min((k - 1) * step + size, Len(text)))]

\* The concatenation of the sequences of a sequence.
RECURSIVE Concat(_)
Concat(ss) == IF ss = <<>> THEN <<>> ELSE Head(ss) \o Concat(Tail(ss))

\* chunk_size > 0 and 0 <= overlap < chunk_size.
ChunkInRange ==
  ck.chunk_size > 0 /\ 0 <= ck.overlap /\ ck.overlap < ck.chunk_size

\* C21: what chunk_text returns for chunk_size <= 0 is the one chunk text,
\* and for chunk_size > 0 and 0 <= overlap < chunk_size the slices of
\* chunk_size characters taken every chunk_size - overlap characters, which
\* for overlap 0 concatenate to text; in that range the loop is never
\* stopped by the cap.
C21_ChunksAreSlices ==
  /\ (ck.pc = "returned" /\ ck.chunk_size <= 0) => ck.chunks = <<ck.text>>
  /\ (ck.pc = "returned" /\ ChunkInRange)
       => /\ ck.chunks
               = SlicesOf(ck.text, ck.chunk_size, ck.chunk_size - ck.overlap)
          /\ ck.overlap = 0 => Concat(ck.chunks) = ck.text
          /\ ck.text = <<>> => ck.chunks = <<>>
  /\ (ck.pc = "loop" /\ ChunkInRange /\ ck.start < Len(ck.text))
       => Len(ck.chunks) < MaxChunks

\* chunk_text("ab", 2, 1) has returned ["ab", "b"].
C21_Witness ==
  /\ ck.pc = "returned"
  /\ ck.text = <<"a", "b">>
  /\ ck.chunk_size = 2
  /\ ck.overlap = 1
  /\ ck.chunks = << <<"a", "b">>, <<"b">> >>

(***************************************************************************)
(* Utilities on the Context String.                                        *)
(***************************************************************************)
\* The offsets at which the pattern occurs in text, letter case ignored.
Occurrences(pattern, text) ==
  {i \in 0..Len(text) : match_at(compile(pattern, TRUE), text, i)}

\* ms are the non-overlapping matches of the pattern in text, leftmost
\* first: each is an occurrence, each starts where the one before has ended
\* or later (and later than it started), and every occurrence is the start
\* of one of them or lies inside one.
NonOverlappingMatches(ms, pattern, text) ==
  /\ \A k \in DOMAIN ms :
       /\ ms[k].start \in Occurrences(pattern, text)
       /\ ms[k].end = ms[k].start + Len(pattern)
       /\ k > 1 => /\ ms[k].start >= ms[k - 1].end
                   /\ ms[k].start > ms[k - 1].start
  /\ \A i \in Occurrences(pattern, text) :
       \E k \in DOMAIN ms :
         \/ ms[k].start = i
         \/ ms[k].start < i /\ i < ms[k].end

\* C22: search_context returns the first min(max_results, total) of the
\* non-overlapping matches of the pattern in the Context String, in
\* increasing order of their start, with the text matched, never more than
\* max_results, and count_matches returns total.
C22_SearchContextBounded ==
  (ut.pc = "returned" /\ ut.fn \in {"search_context", "count_matches"})
  => LET text == context_of(globals)
         all == finditer(compile(ut.pattern, TRUE), text)
         total == Len(all)
     IN
     /\ NonOverlappingMatches(all, ut.pattern, text)
     /\ count_matches(globals, ut.pattern).val = total
     /\ ut.fn = "count_matches" => ut.result = total
     /\ ut.fn = "search_context"
          => /\ Len(ut.result) = Min(ut.max_results, total)
             /\ Len(ut.result) <= ut.max_results
             /\ \A k \in DOMAIN ut.result :
                  /\ ut.result[k].start = all[k].start
                  /\ ut.result[k].end = all[k].end
                  /\ ut.result[k].match
                       = SubSeq(text, all[k].start + 1, all[k].end)
                  /\ k > 1 => ut.result[k - 1].start < ut.result[k].start

\* search_context has returned one match of three because max_results is 1.
C22_Witness ==
  /\ ut.pc = "returned"
  /\ ut.fn = "search_context"
  /\ context_of(globals) = <<"a", "A", "a">>
  /\ ut.pattern = <<"a">>
  /\ ut.max_results = 1
  /\ Len(ut.result) = 1
  /\ ut.result[1].start = 0
  /\ count_matches(globals, ut.pattern).val = 3

\* The places of the newline characters of text, and the place of the k-th
\* of them (0 for k = 0, one past the end when there are fewer than k).
Newlines(text) == {i \in DOMAIN text : text[i] = "\n"}
NewlineAt(text, k) ==
  IF k = 0 THEN 0
  ELSE IF k > Cardinality(Newlines(text)) THEN Len(text) + 1
  ELSE CHOOSE i \in Newlines(text) :
         Cardinality({j \in Newlines(text) : j <= i}) = k

\* C23: get_line(n) does not raise; it returns the text between the
\* (n-1)-th and the n-th newline of the Context String when
\* 1 <= n <= count_lines() and the empty string for every other n, and
\* count_lines() is the number of newlines plus one.
C23_GetLineInRange ==
  /\ ut.fn \in {"get_line", "count_lines"} => ut.pc # "raised"
  /\ (ut.pc = "returned" /\ ut.fn = "count_lines" /\ ~ut.given)
       => ut.result = Cardinality(Newlines(context_of(globals))) + 1
  /\ (ut.pc = "returned" /\ ut.fn = "get_line")
       => LET text == context_of(globals)
              total == count_lines(globals, FALSE, <<>>).val
          IN
          /\ total = Cardinality(Newlines(text)) + 1
          /\ (1 <= ut.n /\ ut.n <= total)
               => ut.result = SubSeq(text, NewlineAt(text, ut.n - 1) + 1,
                                     NewlineAt(text, ut.n) - 1)
          /\ (ut.n < 1 \/ ut.n > total) => ut.result = <<>>

\* get_line(2) has returned "b" on the Context String "a\nb", and
\* get_line(3) the empty string.
C23_Witness ==
  /\ ut.pc = "returned"
  /\ ut.fn = "get_line"
  /\ context_of(globals) = <<"a", "\n", "b">>
  /\ ut.n = 2
  /\ ut.result = <<"b">>
  /\ get_line(globals, 3) = <<>>

\* The text with the case of every letter changed.
SwapCase(text) ==
  [i \in DOMAIN text |->
     CASE text[i] = "a" -> "A" [] text[i] = "A" -> "a"
       [] text[i] = "b" -> "B" [] text[i] = "B" -> "b"
       [] OTHER -> text[i]]
\* The bindings with the Context String in the other letter case.
CaseSwapped(g) == [g EXCEPT !["context"] = TextV(SwapCase(context_of(g)))]
\* The start offsets of a list of matches or sections.
StartsOf(rs) == [k \in DOMAIN rs |-> rs[k].start]
\* The line numbers of a list of (number, line) pairs.
NumbersOf(rs) == [k \in DOMAIN rs |-> rs[k][1]]

\* C24: what a utility that was given a pattern has returned corresponds
\* to what it returns on the same Context String in the other letter case:
\* matches and sections at the same offsets, the same lines, the same
\* counts, a quote of the same length.
C24_CaseInsensitive ==
  (ut.pc = "returned" /\ ut.given)
  => LET g2 == CaseSwapped(globals) IN
     CASE ut.fn = "search_context" ->
            StartsOf(ut.result)
              = StartsOf(search_context(g2, ut.pattern, ut.window,
                                        ut.max_results).val)
       [] ut.fn = "count_matches" ->
            ut.result = count_matches(g2, ut.pattern).val
       [] ut.fn = "extract_sections" ->
            StartsOf(ut.result)
              = StartsOf(extract_sections(g2, ut.pattern).val)
       [] ut.fn = "find_line" ->
            NumbersOf(ut.result) = NumbersOf(find_line(g2, ut.pattern).val)
       [] ut.fn = "count_lines" ->
            ut.result = count_lines(g2, TRUE, ut.pattern).val
       [] ut.fn = "quote_match" ->
            LET q == quote_match(g2, ut.pattern, ut.max_length).val IN
            /\ ut.result.t = q.t
            /\ Len(ut.result.items) = Len(q.items)
       [] OTHER -> TRUE

(***************************************************************************)
(* Bridge requests, their ids and the lines of the inbound stream.         *)
(***************************************************************************)
\* The calls rlm_query(task, ctx) in the fragment of request k, and whether
\* every call of rlm_query in it has a context argument.
RlmCalls(k) ==
  LET code == reqs[k].line.params.code IN
  {code[j] : j \in {j \in DOMAIN code :
                     code[j].op = "call" /\ code[j].fn = "rlm_query"}}
RlmCallsHaveContext(k) == \A c \in RlmCalls(k) : Len(c.args) = 2

\* C25: a bridge:rlm request written for a call rlm_query(task, ctx) has
\* the task under the params key "task" and the context under the params
\* key "ctx".
C25_RlmContextUnderCtx ==
  \A i \in DOMAIN out :
    (out[i].method = "bridge:rlm" /\ RlmCallsHaveContext(out[i].req))
    => \E c \in RlmCalls(out[i].req) :
         /\ <<"task", StrV(c.args[1])>> \in out[i].params
         /\ <<"ctx", StrV(c.args[2])>> \in out[i].params

\* The number of bridge requests among the first i lines written.
BridgeRequestsUpTo(i) ==
  Cardinality({j \in 1..i : out[j].type = "bridge"})

\* C26: the k-th bridge request written carries the id "bridge:k", and the
\* counter is the number of bridge requests written so far, whatever
\* executes, failed bridge calls, destroys and initializes lie between.
C26_BridgeIdsCountUp ==
  /\ \A i \in DOMAIN out :
       out[i].type = "bridge" => out[i].id = BridgeIdOf(BridgeRequestsUpTo(i))
  /\ bridge_counter = BridgeRequestsUpTo(Len(out))

\* Two executes have made one bridge call each, the first of which failed
\* on an error reply: the requests carry bridge:1 and bridge:2.
C26_Witness ==
  /\ Len(out) = 3
  /\ out[1].id = BridgeIdOf(1)
  /\ out[2].type = "response"
  /\ <<"traceback", "RuntimeError">> \in TextOf(out[2].body.stderr)
  /\ out[3].id = BridgeIdOf(2)
  /\ out[3].req = 2
  /\ bridge_counter = 2

\* C27: a request that has been dispatched is without its response only
\* while the process waits for a bridge reply in the handling of that very
\* request; in every other state, whatever the host has sent, each
\* dispatched request has received its response.
C27_UnansweredOnlyWhileAwaiting ==
  \A k \in DOMAIN reqs :
    ResponsesTo(k) = {} => (k = Len(reqs) /\ pc = "await")

\* The non-blank lines the server loop has read, and the lines a bridge
\* call has read that are requests (they have a method key).
ServerLines ==
  {j \in DOMAIN inlog : inlog[j].by = "server" /\ inlog[j].line.kind # "blank"}
PipelinedLines ==
  {j \in DOMAIN inlog :
     inlog[j].by = "bridge" /\ inlog[j].line.method # "absent"}

\* C28: every line consumed has one reader; the lines dispatched are the
\* non-blank lines the server loop read, so a request read by a bridge call
\* is not dispatched and every response belongs to a line of the server
\* loop; and when no bridge call has read a request and no execute is in
\* progress, there are as many responses as non-blank lines read by the
\* server loop.
C28_LinesConsumedOnce ==
  /\ \A j \in DOMAIN inlog : inlog[j].by \in {"server", "bridge"}
  /\ Len(reqs) = Cardinality(ServerLines)
  /\ \A j \in ServerLines : reqs[inlog[j].req].line = inlog[j].line
  /\ \A i \in DOMAIN out :
       out[i].type = "response"
       => \E j \in ServerLines : inlog[j].req = out[i].req
  /\ (PipelinedLines = {} /\ pc # "await")
       => Cardinality({i \in DOMAIN out : out[i].type = "response"})
            = Cardinality(ServerLines)

\* The statements of code before position j cannot raise and cannot block:
\* when the fragment runs, statement j has run.
RunsFor(code, j) ==
  \A i \in 1..(j - 1) : code[i].op \in {"assign", "print", "eprint"}
Binds(code, n) ==
  {i \in DOMAIN code : code[i].op \in {"assign", "call"} /\ code[i].name = n}
\* Request k was an execute that ended in an uncaught failure, a failed
\* bridge call included, and was answered.
FailedExecute(k) ==
  /\ route(reqs[k].line) = "execute"
  /\ reqs[k].status = "answered"
  /\ reqs[k].raised # ""
\* No request after k is a destroy or a fragment that binds n.
KeptSince(k, n) ==
  \A m \in (k + 1)..Len(reqs) :
    /\ route(reqs[m].line) # "destroy"
    /\ route(reqs[m].line) = "execute"
         => Binds(reqs[m].line.params.code, n) = {}

\* C29: the value a fragment assigned to a name before it ended in an
\* uncaught failure (a raise, a failed bridge call) is not rolled back:
\* unless a later request is a destroy or binds the name again, the name
\* holds that value, a later get_variable of the name finds it, and a later
\* fragment that prints the name prints it.
C29_BindingsSurviveFailure ==
  \A k \in DOMAIN reqs :
    FailedExecute(k) =>
      LET code == reqs[k].line.params.code IN
      \A j \in DOMAIN code :
        ( /\ code[j].op = "assign"
          /\ code[j].name \in KeptByInitialize
          /\ RunsFor(code, j)
          /\ Binds(code, code[j].name) = {j}
          /\ KeptSince(k, code[j].name) )
        =>
        /\ globals[code[j].name] = code[j].val
        /\ \A m \in (k + 1)..Len(reqs) : \A i \in ResponsesTo(m) :
             /\ ( /\ route(reqs[m].line) = "get_variable"
                  /\ reqs[m].line.params.name = code[j].name )
                  => /\ out[i].body.found
                     /\ out[i].body.value = code[j].val
             /\ ( /\ route(reqs[m].line) = "execute"
                  /\ reqs[m].line.params.code = <<PrintVar(code[j].name)>> )
                  => out[i].body.stdout
                       = <<<<"text", PyStr(code[j].val)>>>>

\* A fragment binds x and then fails in a bridge call the host answers with
\* an error; the get_variable that follows finds x.
C29_Witness ==
  /\ Len(reqs) = 2
  /\ FailedExecute(1)
  /\ reqs[1].line.params.code[1] = Assign("x", StrV("3"))
  /\ Len(inlog) = 3
  /\ inlog[2].by = "bridge"
  /\ ~inlog[2].ok
  /\ route(reqs[2].line) = "get_variable"
  /\ reqs[2].line.params.name = "x"
  /\ \E i \in ResponsesTo(2) : out[i].body.value = StrV("3")

\* The step dispatches a line and its request ends in a parse error, an
\* invalid-request error or a method-not-found error.
StepProtocolError ==
  /\ StepReads
  /\ Last(inlog').by = "server"
  /\ StepLine.kind # "blank"
  /\ Len(out') > Len(out)
  /\ StepResponse.type = "response"
  /\ StepResponse.kind = "error"
  /\ StepResponse.code \in {PARSE_ERROR, INVALID_REQUEST, METHOD_NOT_FOUND}

\* C30: a request that ends in a parse error, an invalid-request error or
\* a method-not-found error leaves every binding of the execution context,
\* the Context String and the bridge counter as they were, and the error
\* response is the only line it writes: no bridge request goes out.
C30_ProtocolErrorsChangeNothing ==
  [][StepProtocolError =>
       /\ \A n \in Names : globals'[n] = globals[n]
       /\ context_of(globals') = context_of(globals)
       /\ bridge_counter' = bridge_counter
       /\ Len(out') = Len(out) + 1
       /\ \A i \in DOMAIN out' : out'[i].type = "bridge" => i \in DOMAIN out
    ]_vars

\* After a fragment whose callback was answered, a line is rejected with
\* one of the three errors: a binding and a counter above zero are there to
\* be kept.
C30_Witness ==
  /\ Len(reqs) >= 2
  /\ bridge_counter > 0
  /\ reqs[Len(reqs)].status = "answered"
  /\ \E i \in ResponsesTo(Len(reqs)) :
       /\ out[i].kind = "error"
       /\ out[i].code \in {PARSE_ERROR, INVALID_REQUEST, METHOD_NOT_FOUND}
  /\ globals # InitGlobals
  /\ Last(inlog).by = "server"

\* The step is the readline of a bridge call, and what it reads is no JSON
\* text: the end of the input, an empty line, or text json.loads rejects.
StepMalformedReply ==
  /\ StepReads
  /\ StepRoute = "bridge"
  /\ StepLine.kind \in {"eof", "blank", "garbage"}

\* C31: when the line read as the reply to a bridge request is the end of
\* the input, an empty line or non-JSON text, the callback raises in the
\* fragment as any statement may: the bridge counter keeps the value the
\* call gave it, the fragment stops there with its bindings as they were,
\* and the execute is answered at once by one result envelope, with the id
\* of the execute, the output captured before the call and the traceback of
\* the failure in stderr; the step writes no other line, and no error
\* envelope.
C31_MalformedReplyFailsInFragment ==
  [][StepMalformedReply =>
       /\ bridge_counter' = bridge_counter
       /\ bridge_counter >= 1
       /\ Last(inlog').bid = bridge_counter
       /\ ~Last(inlog').ok
       /\ globals' = globals
       /\ Len(out') = Len(out) + 1
       /\ SubSeq(out', 1, Len(out)) = out
       /\ StepResponse.type = "response"
       /\ StepResponse.kind = "result"
       /\ StepResponse.id = frame.id
       /\ StepResponse.req = Len(reqs)
       /\ StepResponse.body.stdout = frame.stdout
       /\ StepResponse.body.stderr
            = Append(frame.stderr, <<"traceback", "JSONDecodeError">>)
       /\ \A i \in DOMAIN out : out[i].req = Len(reqs) => out[i].type = "bridge"
       /\ reqs' = [reqs EXCEPT ![Len(reqs)].status = "answered",
                               ![Len(reqs)].raised = "JSONDecodeError"]
       /\ pc' = "read"
       /\ sys_stdout' = "real"
       /\ frame' = NoFrame
    ]_vars

\* The first bridge call of a fragment met the end of the input in its
\* readline, and the execute has its result envelope after the bridge
\* request.
C31_Witness ==
  /\ Len(reqs) = 1
  /\ reqs[1].status = "answered"
  /\ reqs[1].raised = "JSONDecodeError"
  /\ Last(inlog).by = "bridge"
  /\ Last(inlog).line.kind = "eof"
  /\ bridge_counter = 1
  /\ Len(out) = 2
  /\ out[2].kind = "result"
  /\ out[2].body.stderr = <<<<"traceback", "JSONDecodeError">>>>

====
